---- MODULE Spec2Model ----
(***************************************************************************)
(* A model of the skiptake package: the split-bit varint codec, the pair   *)
(* stream Encoder/Decoder, the Builder, the Iterator and the set algebra   *)
(* (Union, Intersection, ComplementMax).                                   *)
(*                                                                         *)
(* Machine words.  The Go code computes in uint64.  TLC's integers are     *)
(* 32 bits wide, so the model computes in unsigned words of WordBits bits  *)
(* (every uint64 operation is taken modulo 2^WordBits) and MaxUint64 is    *)
(* the largest such word.  The byte-level framing of the varints (7        *)
(* payload bits per byte, `split` flag bits in the first byte) is kept     *)
(* exactly as in the source.                                               *)
(***************************************************************************)
EXTENDS Integers, Sequences, FiniteSets, TLC

\* Width in bits of the model's unsigned machine word (uint64 in the source).
WordBits == 16

Modulus == 2 ^ WordBits

\* math.MaxUint64, at the model's word width.
MaxUint64 == Modulus - 1

Word == 0 .. MaxUint64

\* uint64 addition and subtraction (wrapping).
Add(a, b) == (a + b) % Modulus

Sub(a, b) == (a - b + Modulus) % Modulus

\* uint64(v) << s for a v below 2^7: bits shifted past the word are lost.
Shl(v, s) == IF s >= WordBits THEN 0 ELSE (v * (2 ^ s)) % Modulus

Min(a, b) == IF a < b THEN a ELSE b

\* The one element of a singleton set.  Only({F(x) : x \in {e}}) is F(e) with
\* e computed once and named x: the form used below for a Go local variable
\* that holds the result of a call.
Only(S) == CHOOSE x \in S : TRUE

(***************************************************************************)
(* The split-bit varint codec (skiptake_varint.go).                        *)
(***************************************************************************)

split == 1

splitLowmask == (2 ^ split) - 1

splitHighmask == 127 \div (2 ^ split)

skipFlag == 0

takeFlag == 1

\* The continuation loop of readVarint2: bytes after the first one.  i is the
\* 0-based offset of the next byte to read, s the shift of its payload.  The
\* payload is OR-ed into u; u < 2^s here, so the OR is an addition.
RECURSIVE readVarint2Loop(_, _, _, _, _)
readVarint2Loop(b, i, u, e, s) ==
    IF i < Len(b)
    THEN LET x  == b[i + 1]
             u2 == (u + Shl(x % 128, s)) % Modulus
         IN  IF x < 128
             THEN [u |-> u2, e |-> e, i |-> i + 1]
             ELSE readVarint2Loop(b, i + 1, u2, e, s + 7)
    ELSE [u |-> u, e |-> e, i |-> i]

\* readVarint2(b, &i): the value u, the split bits e and the advanced offset i.
readVarint2(b, i) ==
    IF i < Len(b)
    THEN LET x == b[i + 1]
             e == x % (2 ^ split)
             u == (x % 128) \div (2 ^ split)
         IN  IF x >= 128
             THEN readVarint2Loop(b, i + 1, u, e, 7 - split)
             ELSE [u |-> u, e |-> e, i |-> i + 1]
    ELSE [u |-> 0, e |-> 0, i |-> i]

\* The bytes appendVarint2 writes after the first one: `for u > 0x80 {...}`
\* followed by `ar[i] = byte(u)`.
RECURSIVE appendVarint2Tail(_)
appendVarint2Tail(u) ==
    IF u > 128
    THEN <<(u % 128) + 128>> \o appendVarint2Tail(u \div 128)
    ELSE <<u % 256>>

\* appendVarint2(target, u, e): target with the tagged varint appended.
appendVarint2(target, u, e) ==
    LET x == (e % (2 ^ split)) + ((u % (splitHighmask + 1)) * (2 ^ split))
    IN  IF u >= splitHighmask
        THEN target \o <<x + 128>> \o appendVarint2Tail(u \div (2 ^ (7 - split)))
        ELSE target \o <<x>>

(***************************************************************************)
(* The plain varint format (skiptake_varint.go, lines 1-95).               *)
(***************************************************************************)

\* binary.MaxVarintLen64 for a word of WordBits bits, and the largest last
\* byte of a varint of that length.
MaxVarintLen == (WordBits + 6) \div 7
MaxLastByte == 2 ^ (WordBits - 7 * (MaxVarintLen - 1)) - 1

\* binary.Uvarint(buf[i:]): the value v and the number n of bytes read; n = 0
\* when the buffer ends inside the varint, n < 0 when the value overflows.
\* k bytes were read so far, x is their value.
RECURSIVE UvarintLoop(_, _, _, _)
UvarintLoop(buf, i, k, x) ==
    IF i + k >= Len(buf)
    THEN [v |-> 0, n |-> 0]
    ELSE IF k = MaxVarintLen
         THEN [v |-> 0, n |-> -(k + 1)]
         ELSE IF buf[i + k + 1] < 128
              THEN IF k = MaxVarintLen - 1 /\ buf[i + k + 1] > MaxLastByte
                   THEN [v |-> 0, n |-> -(k + 1)]
                   ELSE [v |-> (x + Shl(buf[i + k + 1], 7 * k)) % Modulus, n |-> k + 1]
              ELSE UvarintLoop(buf, i, k + 1,
                               (x + Shl(buf[i + k + 1] % 128, 7 * k)) % Modulus)

Uvarint(buf, i) == UvarintLoop(buf, i, 0, 0)

\* readVarint(s, &i): the value and the offset after the call; the offset is
\* left alone when Uvarint returns n <= 0.
readVarint(b, i) ==
    Only({ IF r.n <= 0 THEN [v |-> 0, i |-> i] ELSE [v |-> r.v, i |-> i + r.n]
         : r \in {Uvarint(b, i)} })

(***************************************************************************)
(* Decoder and Encoder of the pair stream (skiptake_varint.go).            *)
(* A List is a sequence of bytes.  A Decoder is [i, Elements, lastTake],   *)
(* an Encoder is [Elements, lastTake].                                     *)
(***************************************************************************)
\* List.Decode(): a Decoder at offset 0 with lastTake 0.
Decode(l) == [i |-> 0, Elements |-> l, lastTake |-> 0]

\* Decoder.EOS()
DecoderEOS(d) == d.i >= Len(d.Elements)

\* Decoder.Reset(): only the offset is rewound.
DecoderReset(d) == [d EXCEPT !.i = 0]

\* The `if flag == skipFlag` branch of Decoder.Next: r is the skip read, d1 the
\* decoder after that read.  The take is read only when a take varint follows;
\* otherwise the offset is put back and lastTake repeats.
DecoderNextTake(d1, r) ==
    Only({ IF ~DecoderEOS(d1) /\ r2.e = takeFlag
           THEN [skip |-> Add(r.u, 1), take |-> Add(r2.u, 1),
                 d |-> [d1 EXCEPT !.lastTake = r2.u, !.i = r2.i]]
           ELSE [skip |-> Add(r.u, 1), take |-> Add(d1.lastTake, 1), d |-> d1]
         : r2 \in {readVarint2(d1.Elements, d1.i)} })

\* Decoder.Next(): the pair read and the decoder after the call.
DecoderNext(d) ==
    IF DecoderEOS(d)
    THEN [skip |-> 0, take |-> 0, d |-> d]
    ELSE Only({ IF r.e = skipFlag
                THEN Only({ DecoderNextTake(d1, r) : d1 \in {[d EXCEPT !.i = r.i]} })
                ELSE [skip |-> 0, take |-> Add(r.u, 1),
                      d |-> [d EXCEPT !.i = r.i, !.lastTake = r.u]]
              : r \in {readVarint2(d.Elements, d.i)} })

\* Decoder.PeekSkip()
DecoderPeekSkip(d) ==
    Only({ IF r.e # skipFlag THEN 0 ELSE Add(r.u, 1)
         : r \in {readVarint2(d.Elements, d.i)} })

\* List.Encode(): an Encoder appending to l, lastTake 0.
Encode(l) == [Elements |-> l, lastTake |-> 0]

\* The second half of Encoder.Add: el1 is Elements after the skip (if any) was
\* written, emitSkip whether it was, take1 is take - 1.
EncoderAddTake(e, el1, emitSkip, take1) ==
    IF ~emitSkip \/ take1 # e.lastTake
    THEN [Elements |-> appendVarint2(el1, take1, takeFlag), lastTake |-> take1]
    ELSE [Elements |-> el1, lastTake |-> e.lastTake]

\* Encoder.Add(skip, take)
EncoderAdd(e, skip, take) ==
    IF skip # 0 \/ Len(e.Elements) > 0
    THEN Only({ EncoderAddTake(e, el1, TRUE, Sub(take, 1))
              : el1 \in {appendVarint2(e.Elements, Sub(skip, 1), skipFlag)} })
    ELSE EncoderAddTake(e, e.Elements, FALSE, Sub(take, 1))

\* FromRaw(v): v is the sequence of alternating skip and take values; a
\* trailing skip without a take is dropped.
RECURSIVE FromRawLoop(_, _, _)
FromRawLoop(e, v, i) ==
    IF i + 1 <= Len(v)
    THEN IF i + 2 <= Len(v)
         THEN Only({ FromRawLoop(e1, v, i + 2)
                   : e1 \in {EncoderAdd(e, v[i + 1], v[i + 2])} })
         ELSE e
    ELSE e

FromRaw(v) == FromRawLoop(Encode(<<>>), v, 0).Elements

(***************************************************************************)
(* Builder (builder in unnamed/part_009).                                  *)
(***************************************************************************)

\* Build(&List{}): the target list is cleared.
Build == [Encoder |-> Encode(<<>>), n |-> 0, skip |-> 0, take |-> 0]

\* Builder.flush()
flush(b) ==
    IF b.take > 0
    THEN [b EXCEPT !.Encoder = EncoderAdd(b.Encoder, b.skip, b.take)]
    ELSE b

\* Builder.Skip(skip)
BuilderSkip(b, skip) ==
    IF skip = 0
    THEN [b EXCEPT !.n = Add(Add(b.n, skip), 1), !.take = Add(b.take, 1)]
    ELSE Only({ [b1 EXCEPT !.n = Add(Add(b.n, skip), 1), !.skip = skip, !.take = 1]
              : b1 \in {flush(b)} })

\* Builder.Take(take)
BuilderTake(b, take) ==
    [b EXCEPT !.take = Add(b.take, take), !.n = Add(b.n, take)]

\* Builder.Next(n): the returned bool and the builder after the call.
BuilderNext(b, n) ==
    IF n < b.n
    THEN [ok |-> FALSE, b |-> b]
    ELSE [ok |-> TRUE, b |-> BuilderSkip(b, Sub(n, b.n))]

\* Builder.Finish(): the built List.
Finish(b) == flush(b).Encoder.Elements

\* Create(values...): the List, or Nil when a value is rejected.
Nil == <<-1>>

RECURSIVE CreateLoop(_, _, _)
CreateLoop(b, values, k) ==
    IF k > Len(values)
    THEN Finish(b)
    ELSE Only({ IF r.ok THEN CreateLoop(r.b, values, k + 1) ELSE Nil
              : r \in {BuilderNext(b, values[k])} })

Create(values) == CreateLoop(Build, values, 1)

\* makeRange(args) of the tests: one Next(first) and Take(last - first) per
\* interval <<first, last>>.
RECURSIVE makeRangeLoop(_, _, _)
makeRangeLoop(b, args, k) ==
    IF k > Len(args)
    THEN Finish(b)
    ELSE Only({ makeRangeLoop(b1, args, k + 1)
              : b1 \in {BuilderTake(BuilderNext(b, args[k][1]).b,
                                    Sub(args[k][2], args[k][1]))} })

makeRange(args) == makeRangeLoop(Build, args, 1)

(***************************************************************************)
(* Iterator (set_operations.go, lines 184-344).                            *)
(* An Iterator is [Decoder, skipSum, take, n].                             *)
(***************************************************************************)

\* List.Iterate()
Iterate(l) == [Decoder |-> Decode(l), skipSum |-> 0, take |-> 0, n |-> 0]

\* Iterator.Reset()
IterReset(t) ==
    [t EXCEPT !.Decoder = DecoderReset(t.Decoder), !.skipSum = 0, !.take = 0, !.n = 0]

\* An end-of-sequence test on n alone.
EOSByN(t) == t.n = MaxUint64

\* Iterator.EOS()
IterEOS(t) == t.n = MaxUint64 /\ t.take = MaxUint64

\* First loop of NextSkipTake: "Coalesce zero takes".  Returns the decoder,
\* the skip and take read, and whether the decoder ran out first.
RECURSIVE CoalesceZeroTakes(_, _, _)
CoalesceZeroTakes(d, skip, take) ==
    IF take # 0
    THEN [d |-> d, skip |-> skip, take |-> take, eos |-> FALSE]
    ELSE IF DecoderEOS(d)
         THEN [d |-> d, skip |-> skip, take |-> take, eos |-> TRUE]
         ELSE Only({ Only({ CoalesceZeroTakes(r.d, s, r.take) : s \in {Add(skip, r.skip)} })
                   : r \in {DecoderNext(d)} })

\* NextSkipTake without its second loop: pairs with a zero skip are surfaced
\* as they are.
KeepZeroSkips(d, take) == [d |-> d, take |-> take]

\* Second loop of NextSkipTake: "Coalesce zero skips".
RECURSIVE CoalesceZeroSkips(_, _)
CoalesceZeroSkips(d, take) ==
    IF DecoderEOS(d)
    THEN [d |-> d, take |-> take]
    ELSE IF DecoderPeekSkip(d) # 0
         THEN [d |-> d, take |-> take]
         ELSE Only({ Only({ CoalesceZeroSkips(r.d, s) : s \in {Add(take, r.take)} })
                   : r \in {DecoderNext(d)} })

\* NextSkipTake counting the skip from n, without the rest of the run that
\* was not returned by Next.
NextSkipTakeFromN(t, z) ==
    Only({ [skip |-> z.skip, take |-> s.take,
            t |-> [Decoder |-> s.d,
                   skipSum |-> Add(t.skipSum, z.skip),
                   n       |-> Add(t.n, z.skip),
                   take    |-> s.take]]
         : s \in {CoalesceZeroSkips(z.d, z.take)} })

\* NextSkipTake after its first loop found a take: z is what that loop read.
NextSkipTakeFound(t, z) ==
    Only({ [skip |-> z.skip, take |-> s.take,
            t |-> [Decoder |-> s.d,
                   skipSum |-> Add(t.skipSum, z.skip),
                   n       |-> Add(Add(t.n, t.take), z.skip),
                   take    |-> s.take]]
         : s \in {CoalesceZeroSkips(z.d, z.take)} })

\* Iterator.NextSkipTake(): the returned pair and the iterator after the call.
IterNextSkipTake(t) ==
    Only({ IF z.eos
           THEN [skip |-> 0, take |-> 0,
                 t |-> [t EXCEPT !.Decoder = z.d, !.n = MaxUint64, !.take = MaxUint64]]
           ELSE NextSkipTakeFound(t, z)
         : z \in {CoalesceZeroTakes(t.Decoder, 0, 0)} })

\* Iterator.NextInterval()
IterNextInterval(t) ==
    Only({ IF r.skip = 0 /\ r.take = 0
           THEN [first |-> MaxUint64, last |-> 0, t |-> r.t]
           ELSE [first |-> r.t.n, last |-> Sub(Add(r.t.n, r.t.take), 1), t |-> r.t]
         : r \in {IterNextSkipTake(t)} })

\* The end of Iterator.Next: `result := t.n; t.take--; t.n++`.
NextValue(t) ==
    [value |-> t.n, t |-> [t EXCEPT !.take = Sub(t.take, 1), !.n = Add(t.n, 1)]]

\* Iterator.Next(): the returned value and the iterator after the call.
IterNext(t) ==
    IF t.take = 0
    THEN Only({ IF r.skip = 0 /\ r.take = 0
                THEN [value |-> MaxUint64, t |-> r.t]
                ELSE NextValue(r.t)
              : r \in {IterNextSkipTake(t)} })
    ELSE NextValue(t)

\* The loop of Seek: `for takeSum <= pos {...}`.
RECURSIVE SeekLoop(_, _, _)
SeekLoop(t, takeSum, pos) ==
    IF takeSum <= pos
    THEN IF DecoderEOS(t.Decoder)
         THEN [eos |-> TRUE, takeSum |-> takeSum,
               t |-> [t EXCEPT !.n = MaxUint64, !.take = MaxUint64]]
         ELSE Only({ Only({ SeekLoop(r.t, s, pos) : s \in {Add(takeSum, r.take)} })
                   : r \in {IterNextSkipTake(t)} })
    ELSE [eos |-> FALSE, takeSum |-> takeSum, t |-> t]

\* What Seek does after its loop: r is the loop's outcome.
SeekFinish(r, pos) ==
    IF r.eos
    THEN [skip |-> 0, take |-> 0, t |-> r.t]
    ELSE [skip |-> Add(r.t.skipSum, pos), take |-> Sub(r.takeSum, pos),
          t |-> [r.t EXCEPT !.take = Sub(r.takeSum, pos),
                            !.n = Add(r.t.skipSum, pos)]]

\* Iterator.Seek(pos): the returned pair and the iterator after the call.
IterSeek(t, pos) ==
    Only({ IF pos < takeSum
           THEN Only({ SeekFinish(r, pos) : r \in {SeekLoop(IterReset(t), 0, pos)} })
           ELSE Only({ SeekFinish(r, pos) : r \in {SeekLoop(t, takeSum, pos)} })
         : takeSum \in {Sub(Add(t.n, t.take), t.skipSum)} })

\* The end of Iterator.Interval: `if t.EOS() {...}; return t.n, t.n + t.take - 1`.
CurrentInterval(t) ==
    IF IterEOS(t)
    THEN [first |-> MaxUint64, last |-> 0, t |-> t]
    ELSE [first |-> t.n, last |-> Sub(Add(t.n, t.take), 1), t |-> t]

\* Iterator.Interval()
IterInterval(t) ==
    IF t.n = 0 /\ t.take = 0
    THEN Only({ CurrentInterval(r.t) : r \in {IterNextSkipTake(t)} })
    ELSE CurrentInterval(t)

\* List.Expand(): Next until EOS.  `left` caps the length of the result.
RECURSIVE ExpandLoop(_, _, _)
ExpandLoop(t, output, left) ==
    Only({ IF IterEOS(r.t) \/ left = 0
           THEN output
           ELSE Only({ ExpandLoop(r.t, o, left - 1) : o \in {Append(output, r.value)} })
         : r \in {IterNext(t)} })

\* List.Len()
RECURSIVE LenLoop(_, _)
LenLoop(d, ret) ==
    IF DecoderEOS(d)
    THEN ret
    ELSE Only({ Only({ LenLoop(r.d, s) : s \in {Add(ret, r.take)} })
              : r \in {DecoderNext(d)} })

ListLen(l) == LenLoop(Decode(l), 0)

(***************************************************************************)
(* Set algebra (unnamed/part_003).                                         *)
(* A firstHeap is a sequence of Iterators; index i of the Go slice is      *)
(* element i + 1 of the sequence.                                          *)
(***************************************************************************)

\* firstHeap.Less(i, j)
Less(m, i, j) ==
    IF m[i + 1].n = m[j + 1].n
    THEN m[i + 1].take < m[j + 1].take
    ELSE m[i + 1].n < m[j + 1].n

\* firstHeap.Swap(i, j)
Swap(m, i, j) == [m EXCEPT ![i + 1] = m[j + 1], ![j + 1] = m[i + 1]]

\* The child down() compares with: the right one when it is the lesser.
heapChild(h, j1, n) == IF j1 + 1 < n /\ Less(h, j1 + 1, j1) THEN j1 + 1 ELSE j1

\* container/heap down(h, i0, n), as called by heap.Init and heap.Fix:
\* the heap after sifting, and the index the element stopped at.
RECURSIVE heapDown(_, _, _)
heapDown(h, i, n) ==
    IF 2 * i + 1 >= n
    THEN [h |-> h, i |-> i]
    ELSE Only({ IF ~Less(h, j, i)
                THEN [h |-> h, i |-> i]
                ELSE Only({ heapDown(h1, j, n) : h1 \in {Swap(h, i, j)} })
              : j \in {heapChild(h, 2 * i + 1, n)} })

\* container/heap up(h, j)
RECURSIVE heapUp(_, _)
heapUp(h, j) ==
    Only({ IF j = 0 \/ ~Less(h, j, i)
           THEN h
           ELSE Only({ heapUp(h1, i) : h1 \in {Swap(h, i, j)} })
         : i \in {(j - 1) \div 2} })

\* heap.Init(&iter): down(h, i, n) for i = n/2 - 1 down to 0.
RECURSIVE heapInitLoop(_, _)
heapInitLoop(h, i) ==
    IF i < 0
    THEN h
    ELSE Only({ heapInitLoop(d.h, i - 1) : d \in {heapDown(h, i, Len(h))} })

heapInit(h) == heapInitLoop(h, (Len(h) \div 2) - 1)

\* heap.Fix(&iter, i)
heapFix(h, i) ==
    Only({ IF d.i > i THEN d.h ELSE heapUp(h, i) : d \in {heapDown(h, i, Len(h))} })

\* iter[0].NextInterval() followed by heap.Fix(&iter, 0)
AdvanceTop(iter) ==
    Only({ heapFix([iter EXCEPT ![1] = v.t], 0) : v \in {IterNextInterval(iter[1])} })

\* One pass of the `for` loop of union after `first, last := iter[0].Interval()`
\* did not find EOS: the Builder and r after the if/else-if.
unionStep(result, v, r) ==
    IF v.first > r
    THEN [result |-> BuilderTake(BuilderSkip(result, Sub(v.first, Add(r, 1))),
                                 Sub(v.last, v.first)),
          r |-> v.last]
    ELSE IF v.last > r
         THEN [result |-> BuilderTake(result, Sub(v.last, r)), r |-> v.last]
         ELSE [result |-> result, r |-> r]

\* The `for` loop of union: the Builder when the loop returns.
RECURSIVE unionLoop(_, _, _)
unionLoop(result, iter, r) ==
    Only({ IF v.first > v.last
           THEN result
           ELSE Only({ Only({ unionLoop(s.result, iter1, s.r)
                            : iter1 \in {AdvanceTop([iter EXCEPT ![1] = v.t])} })
                     : s \in {unionStep(result, v, r)} })
         : v \in {IterInterval(iter[1])} })

\* union after heap.Init: h0 is the heap, v its top's Interval().
unionFirst(result, h0, v) ==
    IF v.first > v.last
    THEN result
    ELSE Only({ Only({ unionLoop(b, h1, v.last)
                     : b \in {BuilderTake(BuilderSkip(result, v.first),
                                          Sub(v.last, v.first))} })
              : h1 \in {AdvanceTop([h0 EXCEPT ![1] = v.t])} })

\* union(result, iter): the Builder after the call.
union(result, iter) ==
    Only({ Only({ unionFirst(result, h0, v) : v \in {IterInterval(h0[1])} })
         : h0 \in {heapInit(iter)} })

\* The Iterators Union and Intersection build from their argument lists.
Iterators(lists) == [i \in 1 .. Len(lists) |-> Iterate(lists[i])]

\* Union(lists...): every iterator is primed with NextSkipTake.
Union(lists) ==
    IF Len(lists) > 0
    THEN Only({ Only({ Finish(b) : b \in {union(Build, iter)} })
              : iter \in {[i \in 1 .. Len(lists) |->
                              IterNextSkipTake(Iterate(lists[i])).t]} })
    ELSE Finish(Build)

\* The first loop of the scanning union (part_002): the lowest first value n of
\* the current intervals and the last value r of that interval.  `it` is a
\* copy there, so what Interval() does to it is dropped.
RECURSIVE scanLowest(_, _, _, _)
scanLowest(iter, i, n, r) ==
    IF i > Len(iter)
    THEN [n |-> n, r |-> r]
    ELSE Only({ IF v.first < n
                THEN scanLowest(iter, i + 1, v.first, v.last)
                ELSE scanLowest(iter, i + 1, n, r)
              : v \in {IterInterval(iter[i])} })

\* `for it := &iter[i]; !it.EOS(); it.NextSkipTake() {...}`: the intervals of
\* one iterator that start at or before r are eaten, and r is raised to the
\* last value of one that reaches beyond it.
RECURSIVE scanEat(_, _, _)
scanEat(it, r, found) ==
    IF IterEOS(it)
    THEN [it |-> it, r |-> r, found |-> found]
    ELSE Only({ IF v.first > r
                THEN [it |-> v.t, r |-> r, found |-> found]
                ELSE Only({ scanEat(nx.t, IF v.last > r THEN v.last ELSE r,
                                    found \/ v.last > r)
                          : nx \in {IterNextSkipTake(v.t)} })
              : v \in {IterInterval(it)} })

\* `for i := range iter {...}`: one pass over all iterators.
RECURSIVE scanPass(_, _, _, _)
scanPass(iter, i, r, found) ==
    IF i > Len(iter)
    THEN [iter |-> iter, r |-> r, found |-> found]
    ELSE Only({ scanPass([iter EXCEPT ![i] = e.it], i + 1, e.r, e.found)
              : e \in {scanEat(iter[i], r, found)} })

\* The passes are repeated until one raises r no more.
RECURSIVE scanExtend(_, _)
scanExtend(iter, r) ==
    Only({ IF p.found THEN scanExtend(p.iter, p.r) ELSE p
         : p \in {scanPass(iter, 1, r, FALSE)} })

\* The outer loop of the scanning union; l is one past the last value
\* written.
RECURSIVE scanUnionLoop(_, _, _)
scanUnionLoop(result, iter, l) ==
    Only({ IF low.n = MaxUint64
           THEN result
           ELSE Only({ scanUnionLoop(
                           BuilderTake(BuilderSkip(result, Sub(low.n, l)), Sub(e.r, low.n)),
                           e.iter, Add(e.r, 1))
                     : e \in {scanExtend(iter, low.r)} })
         : low \in {scanLowest(iter, 1, MaxUint64, 0)} })

\* union(result, iter) of part_002
scanUnion(result, iter) == scanUnionLoop(result, iter, 0)

\* Union(lists...) of part_002: every iterator is primed with NextSkipTake.
ScanUnion(lists) ==
    Only({ Only({ Finish(b) : b \in {scanUnion(Build, iter)} })
         : iter \in {[i \in 1 .. Len(lists) |->
                         IterNextSkipTake(Iterate(lists[i])).t]} })

\* The innermost loop of intersection for one iterator:
\* `for first, last := it.Interval(); ; first, last = it.NextInterval()`.
\* kind is "eos" (return), "raise" (n = first; continue outer) or "ok" (break).
RECURSIVE scanOne(_, _)
scanOne(v, n) ==
    IF v.first > v.last
    THEN [kind |-> "eos", t |-> v.t, n |-> n]
    ELSE IF v.last >= n
         THEN IF v.first > n
              THEN [kind |-> "raise", t |-> v.t, n |-> v.first]
              ELSE [kind |-> "ok", t |-> v.t, n |-> n]
         ELSE Only({ scanOne(v1, n) : v1 \in {IterNextInterval(v.t)} })

\* `for i := range iter {...}` of intersection, from index i on.
RECURSIVE scanAll(_, _, _)
scanAll(iter, i, n) ==
    IF i > Len(iter)
    THEN [kind |-> "ok", iter |-> iter, n |-> n]
    ELSE Only({ IF s.kind = "ok"
                THEN Only({ scanAll(iter1, i + 1, n)
                          : iter1 \in {[iter EXCEPT ![i] = s.t]} })
                ELSE [kind |-> s.kind, iter |-> [iter EXCEPT ![i] = s.t], n |-> s.n]
              : s \in {Only({ scanOne(v, n) : v \in {IterInterval(iter[i])} })} })

\* r = min over the iterators of the last value of the current interval
\* (`for _, it := range iter`: Interval() is called on a copy of each iterator;
\* every iterator has a current interval here, so the call changes nothing).
RECURSIVE minLast(_, _, _)
minLast(iter, i, r) ==
    IF i > Len(iter)
    THEN r
    ELSE Only({ minLast(iter, i + 1, r1)
              : r1 \in {Min(IterInterval(iter[i]).last, r)} })

RECURSIVE intersectionLoop(_, _, _, _, _)

\* The end of one pass of the `outer` loop, after every iterator was found to
\* hold n: the interval n..r is written and the loop goes on from r + 1.
intersectionEmit(result, iter, n, l) ==
    Only({ Only({ intersectionLoop(b, iter, Add(r1, 1), r1, Add(r1, 1))
                : b \in {BuilderTake(BuilderSkip(result, Sub(n, l)), Sub(r1, n))} })
         : r1 \in {minLast(iter, 1, MaxUint64)} })

\* The `outer` loop of intersection: the Builder when it ends.
intersectionLoop(result, iter, n, r, l) ==
    IF r = MaxUint64
    THEN result
    ELSE Only({ IF s.kind = "eos"
                THEN result
                ELSE IF s.kind = "raise"
                     THEN intersectionLoop(result, s.iter, s.n, r, l)
                     ELSE intersectionEmit(result, s.iter, s.n, l)
              : s \in {scanAll(iter, 1, n)} })

\* intersection(result, iter)
intersection(result, iter) ==
    IF Len(iter) = 0 THEN result ELSE intersectionLoop(result, iter, 0, 0, 0)

\* Intersection(lists...)
Intersection(lists) ==
    Only({ Finish(b) : b \in {intersection(Build, Iterators(lists))} })

\* What complement does after its `for` loop.
complementTail(result, n, max) ==
    IF n <= max
    THEN BuilderTake(IF n = 0 THEN BuilderSkip(result, 0) ELSE result, Sub(max, n))
    ELSE result

\* The `if skip > 0` block of complement when it does not return: the values
\* skipped by the set are taken.
complementSkipped(result, n, skip) ==
    IF skip > 0
    THEN BuilderTake(IF n = 0 THEN BuilderSkip(result, 0) ELSE result, Sub(skip, 1))
    ELSE result

RECURSIVE complementLoop(_, _, _, _)

\* The rest of one pass of the loop of complement, from `n += skip` on: p is
\* what NextSkipTake returned, n1 is n after `n += skip`.
complementRest(res1, p, n1, max) ==
    IF p.take = 0
    THEN complementTail(res1, n1, max)
    ELSE IF Sub(max, n1) <= p.take
         THEN res1
         ELSE Only({ complementLoop(res2, p.t, Add(n1, p.take), max)
                   : res2 \in {BuilderSkip(res1, p.take)} })

\* The `for` loop of complement, with n the position reached so far.
complementLoop(result, set, n, max) ==
    Only({ IF p.skip > 0 /\ Sub(max, n) <= p.skip
           THEN BuilderTake(result, Add(Sub(max, n), 1))
           ELSE Only({ complementRest(res1, p, Add(n, p.skip), max)
                     : res1 \in {complementSkipped(result, n, p.skip)} })
         : p \in {IterNextSkipTake(set)} })

complement(result, set, max) == complementLoop(result, set, 0, max)

\* ComplementMax(list, max)
ComplementMax(list, max) ==
    Only({ Finish(b) : b \in {complement(Build, Iterate(list), max)} })

\* Complement(list)
Complement(list) == ComplementMax(list, MaxUint64)

RECURSIVE EqualLoop(_, _)

\* One pass of the loop of Equal: a and b are the pairs read from both lists.
EqualPairs(a, b) ==
    IF a.skip # b.skip \/ a.take # b.take
    THEN FALSE
    ELSE EqualLoop(a.d, b.d)

\* Equal(a, b): both decoders in lock step.
EqualLoop(ad, bd) ==
    IF DecoderEOS(ad)
    THEN DecoderEOS(bd)
    ELSE Only({ Only({ EqualPairs(a, b) : b \in {DecoderNext(bd)} })
              : a \in {DecoderNext(ad)} })

Equal(a, b) == EqualLoop(Decode(a), Decode(b))

(***************************************************************************)
(* The packed format of skiptake_int.go: a List of half words (uint32 in   *)
(* the code), decoded to and encoded from pairs of full words.             *)
(***************************************************************************)

HalfBits == WordBits \div 2

HalfModulus == 2 ^ HalfBits

\* math.MaxUint32, the largest half word.
MaxUint32 == HalfModulus - 1

\* SkipTakeIntList.Decode()
IntDecode(l) == [i |-> 0, Elements |-> l]

\* SkipTakeIntDecoder.EOS()
IntDecoderEOS(x) == x.i + 1 >= Len(x.Elements)

\* The last loop of SkipTakeIntDecoder.Next: pairs with a skip of 0 are added
\* to the take.
RECURSIVE IntEat(_, _, _)
IntEat(x, skip, take) ==
    IF x.i + 1 < Len(x.Elements) /\ x.Elements[x.i + 1] = 0
    THEN IntEat([x EXCEPT !.i = x.i + 2], skip, Add(take, x.Elements[x.i + 2]))
    ELSE [skip |-> skip, take |-> take, x |-> x]

\* SkipTakeIntDecoder.Next() after the first two reads, x.i already past
\* them.  `skip | hi << 32` is a sum, as skip is below 2^32.
IntEscape(x, skip, take) ==
    IF take = 0
    THEN IF ~(x.i + 1 < Len(x.Elements))
         THEN [skip |-> 0, take |-> 0, x |-> x]
         ELSE IntEat([x EXCEPT !.i = x.i + 2],
                     Add(skip, Shl(x.Elements[x.i + 1], HalfBits)),
                     x.Elements[x.i + 2])
    ELSE IntEat(x, skip, take)

\* SkipTakeIntDecoder.Next()
IntDecoderNext(x) ==
    IF x.i + 1 >= Len(x.Elements)
    THEN IF x.i < Len(x.Elements)
         THEN [skip |-> x.Elements[1], take |-> 1, x |-> [x EXCEPT !.i = x.i + 1]]
         ELSE [skip |-> 0, take |-> 0, x |-> x]
    ELSE IntEscape([x EXCEPT !.i = x.i + 2], x.Elements[x.i + 1], x.Elements[x.i + 2])

\* The `for take > math.MaxUint32` loop of SkipTakeIntEncoder.Add and the
\* append after it.
RECURSIVE IntAddTake(_, _, _)
IntAddTake(Elements, skip, take) ==
    IF take > MaxUint32
    THEN IntAddTake(Elements \o <<skip % HalfModulus, MaxUint32>>, 0, take - MaxUint32)
    ELSE Elements \o <<skip % HalfModulus, take % HalfModulus>>

\* SkipTakeIntEncoder.Add(skip, take)
IntEncoderAdd(Elements, skip, take) ==
    IF skip > MaxUint32
    THEN IntAddTake(Elements \o <<skip % HalfModulus, 0>>,
                    (skip \div HalfModulus) % HalfModulus, take)
    ELSE IntAddTake(Elements, skip, take)

(***************************************************************************)
(* Bounds of the model and the inputs the operations are driven with.      *)
(***************************************************************************)

\* Longest argument list handed to Create (calls of Builder.Next).
MaxValues == 3

\* Most pairs handed to FromRaw or to one Encoder.
MaxPairs == 3

\* Most tagged varints appended to one buffer.
MaxEntries == 2

\* Most calls made on one Iterator.
MaxCalls == 3

\* Largest ordinal handed to Iterator.Seek.
MaxPos == 3

\* Largest bound handed to ComplementMax.
MaxBound == 4

\* Cap on the length of an expanded list.
MaxExpand == 12

\* Values fed to Builder.Next: 0 and small values, a value whose first skip
\* needs a two-byte varint, and the two largest words.
Values == {0, 2, 4, 5, 8193, MaxUint64 - 1, MaxUint64}

\* Skip and take values of raw pairs.
PairValues == {0, 1, 2, 8193, MaxUint64}

\* Skip and take values of the raw pairs handed to FromRaw.
RawValues == {0, 1, 2}

\* Values handed to the varint codec: around the one-byte limit (63), around
\* the two-byte limit (8191, 8192), and the largest word.
CodecValues == {0, 1, 62, 63, 64, 127, 128, 8191, 8192, 8193, 8255, 8256,
                MaxUint64 - 1, MaxUint64}

\* All sequences over S of length at most n.
SeqsUpTo(S, n) == UNION {[1 .. k -> S] : k \in 0 .. n}

\* Strictly increasing sequences.
StrictlyIncreasing(v) == \A k \in 1 .. Len(v) - 1 : v[k] < v[k + 1]

\* List.Expand()
Expand(l) == ExpandLoop(Iterate(l), <<>>, MaxExpand)

\* The maximal runs of consecutive values of a strictly increasing sequence e,
\* as a sequence of intervals <<first, last>>.
RECURSIVE RunsLoop(_, _, _)
RunsLoop(e, i, acc) ==
    IF i > Len(e)
    THEN acc
    ELSE IF Len(acc) > 0 /\ acc[Len(acc)][2] + 1 = e[i]
         THEN RunsLoop(e, i + 1, [acc EXCEPT ![Len(acc)] = <<@[1], e[i]>>])
         ELSE RunsLoop(e, i + 1, Append(acc, <<e[i], e[i]>>))

Runs(e) == RunsLoop(e, 1, <<>>)

\* The canonical pair of run k of runs: the gap before it and its length.
CanonicalPair(runs, k) ==
    <<runs[k][1] - (IF k = 1 THEN 0 ELSE runs[k - 1][2] + 1),
      runs[k][2] - runs[k][1] + 1>>

\* The set of values of a sequence.
Range(v) == {v[k] : k \in 1 .. Len(v)}

\* The sorted sequence of the values of a finite set of numbers.
RECURSIVE SortedSeq(_)
SortedSeq(S) ==
    IF S = {} THEN <<>>
    ELSE LET m == CHOOSE x \in S : \A y \in S : x <= y
         IN  <<m>> \o SortedSeq(S \ {m})

\* Number of values of the expanded sequence e from ordinal pos (0-based) to
\* the end of the maximal run of consecutive values that holds e[pos].
RECURSIVE RunRest(_, _)
RunRest(e, pos) ==
    IF pos + 2 <= Len(e) /\ e[pos + 2] = e[pos + 1] + 1
    THEN 1 + RunRest(e, pos + 1)
    ELSE 1

(***************************************************************************)
(* State.                                                                  *)
(***************************************************************************)
VARIABLES
    pc,        \* "build", "built" or "iter": Builder open, List built, Iterator open
    origin,    \* "Create" or "FromRaw": how the List was made
    offered,   \* the values handed to Builder.Next, or the raw values of FromRaw
    rejected,  \* whether a Builder.Next returned false
    builder,   \* the Builder
    list,      \* the List (bytes)
    iter,      \* the Iterator over list
    ret,       \* the last Iterator call and what it returned
    calls,     \* number of calls made on iter
    extra,     \* whether Interval or Reset was among them
    at,        \* where the calls made since Iterate should have brought the
               \* iterator: run and j, the run it is in and the values of that run
               \* already returned; seeks, the Seek calls that found a value (-1
               \* once the place is not tracked any more); hop, 1 after such a
               \* Seek, 2 after a NextSkipTake that follows it, 3 after a Next
               \* that follows the two; nexts, the Next calls made
    walk,      \* k: the pairs surfaced by NextSkipTake / NextInterval calls alone
               \* since Iterate (-1 after any other call); prev: the last value
               \* of the interval surfaced before the current one (-1 if none)
    sought,    \* the pos of the last Seek if it returned a value and only Next
               \* was called since (else -1), and the number of those Next calls
    oks,       \* what each Builder.Next returned
    codec,     \* a byte buffer written by appendVarint2 and read by readVarint2
    stream,    \* a pair stream written by one Encoder and read by one Decoder
    alg,       \* arguments and result of a set-algebra call
    dl,        \* a loop `for !d.EOS() { d.Next() }` over a byte sequence, in the
               \* plain or the split varint format, and the place it is at
    mem,       \* backing arrays, the Lists (slices) in them, and one set-algebra
               \* call on these Lists
    ints       \* pairs written by one SkipTakeIntEncoder, the half words it
               \* wrote, and the pairs one SkipTakeIntDecoder reads from them

vars ==
    <<pc, origin, offered, rejected, builder, list, iter, ret, calls, extra, sought, oks,
      walk, at, codec, stream, alg, mem, dl, ints>>

NoRet == [op |-> "none", arg |-> 0, a |-> 0, b |-> 0]

NoSeek == [pos |-> -1, nexts |-> 0]

\* The iterator's place before any call, and a place that is not tracked.
NoAt == [run |-> 0, j |-> 0, seeks |-> 0, hop |-> 0, nexts |-> 0]
LostAt == [run |-> 0, j |-> 0, seeks |-> -1, hop |-> 0, nexts |-> 0]

\* The number of values of run k of runs (none before the first run).
RunLen(runs, k) == IF k = 0 THEN 0 ELSE runs[k][2] - runs[k][1] + 1

\* The run that holds the value at ordinal pos, counted from run k on, and the
\* number of values of that run before it.
RECURSIVE RunAt(_, _, _)
RunAt(runs, k, pos) ==
    IF pos < RunLen(runs, k)
    THEN [run |-> k, j |-> pos]
    ELSE RunAt(runs, k + 1, pos - RunLen(runs, k))

\* The place after Next(): the next value of the run, or the first value of
\* the following run.
AtNext(a, runs) ==
    IF a.seeks < 0
    THEN a
    ELSE IF a.j < RunLen(runs, a.run)
         THEN [a EXCEPT !.j = @ + 1, !.nexts = @ + 1,
                        !.hop = IF a.hop = 2 THEN 3 ELSE 0]
         ELSE IF a.run < Len(runs)
              THEN [a EXCEPT !.run = @ + 1, !.j = 1, !.nexts = @ + 1,
                             !.hop = IF a.hop = 2 THEN 3 ELSE 0]
              ELSE LostAt

\* The place after NextSkipTake() or NextInterval(): the start of the
\* following run.
AtNextRun(a, runs) ==
    IF a.seeks < 0
    THEN a
    ELSE IF a.run < Len(runs)
         THEN [a EXCEPT !.run = @ + 1, !.j = 0, !.hop = IF a.hop = 1 THEN 2 ELSE 0]
         ELSE LostAt

\* The number of values of all runs.
RECURSIVE RunsTotal(_, _)
RunsTotal(runs, k) == IF k > Len(runs) THEN 0 ELSE RunLen(runs, k) + RunsTotal(runs, k + 1)

\* The place after Seek(pos): in the run of the value at ordinal pos, when
\* Seek returned a value.
AtSeek(a, runs, pos, found) ==
    IF found /\ pos < RunsTotal(runs, 1)
    THEN Only({ [run |-> r.run, j |-> r.j, hop |-> 1, nexts |-> 0,
                 seeks |-> IF a.seeks < 0 THEN 1 ELSE a.seeks + 1]
              : r \in {RunAt(runs, 1, pos)} })
    ELSE LostAt

\* No pair surfaced yet / the series of NextSkipTake and NextInterval calls broken.
NoWalk == [k |-> 0, prev |-> -1]
BrokenWalk == [k |-> -1, prev |-> -1]

\* walk after a NextSkipTake or NextInterval call on Iterator t that returned r.
Walked(w, t, r) ==
    IF w.k < 0 \/ IterEOS(r.t)
    THEN w
    ELSE [k |-> w.k + 1, prev |-> IF w.k = 0 THEN -1 ELSE Sub(Add(t.n, t.take), 1)]

InitList ==
    /\ pc = "build"
    /\ origin = "Create"
    /\ offered = <<>>
    /\ rejected = FALSE
    /\ builder = Build
    /\ list = <<>>
    /\ iter = Iterate(<<>>)
    /\ ret = NoRet
    /\ calls = 0
    /\ extra = FALSE
    /\ sought = NoSeek
    /\ oks = <<>>
    /\ walk = NoWalk
    /\ at = NoAt

InitCodec == codec = [buf |-> <<>>, entries |-> <<>>, ends |-> <<>>, i |-> 0, got |-> <<>>]

InitStream ==
    stream = [pairs |-> <<>>, enc |-> Encode(<<>>), reading |-> FALSE,
              dec |-> Decode(<<>>), decoded |-> <<>>]

InitAlg == alg = [op |-> "none", lists |-> <<>>, max |-> 0, out |-> <<>>]

\* The nil slice: List{}.
NilList == [arr |-> 0, len |-> 0]

InitMem ==
    mem = [arrays |-> <<>>, lists |-> <<>>, op |-> "none", max |-> 0,
           before |-> <<>>, result |-> NilList]

InitDecode ==
    dl = [fmt |-> "none", pc |-> "idle", d |-> Decode(<<>>), j |-> 0, take |-> 0]

InitInts ==
    ints = [pc |-> "add", pairs |-> <<>>, Elements |-> <<>>,
            x |-> IntDecode(<<>>), decoded |-> <<>>]

Init == InitList /\ InitCodec /\ InitStream /\ InitAlg /\ InitMem /\ InitDecode /\ InitInts

(***************************************************************************)
(* Builder, List and Iterator: the specification Spec.                     *)
(***************************************************************************)

\* Builder.Next(v), as Create calls it for each value.
BNext(v) ==
    /\ pc = "build"
    /\ Len(offered) < MaxValues
    /\ LET r == BuilderNext(builder, v)
       IN  /\ builder' = r.b
           /\ rejected' = (rejected \/ ~r.ok)
           /\ oks' = Append(oks, r.ok)
    /\ offered' = Append(offered, v)
    /\ UNCHANGED <<pc, origin, list, iter, ret, calls, extra, sought, walk, at, codec, stream, alg, mem, dl, ints>>

\* Builder.Finish()
DoFinish ==
    /\ pc = "build"
    /\ list' = Finish(builder)
    /\ pc' = "built"
    /\ UNCHANGED <<origin, offered, rejected, builder, iter, ret, calls, extra, sought, oks,
                    walk, at, codec, stream, alg, mem, dl, ints>>

\* FromRaw(v) instead of a Builder.
DoFromRaw(v) ==
    /\ pc = "build"
    /\ offered = <<>>
    /\ list' = FromRaw(v)
    /\ offered' = v
    /\ origin' = "FromRaw"
    /\ pc' = "built"
    /\ UNCHANGED <<rejected, builder, iter, ret, calls, extra, sought, oks, walk, at, codec, stream, alg, mem, dl, ints>>

\* List.Iterate()
DoIterate ==
    /\ pc = "built"
    /\ iter' = Iterate(list)
    /\ pc' = "iter"
    /\ UNCHANGED <<origin, offered, rejected, builder, list, ret, calls, extra, sought, oks,
                    walk, at, codec, stream, alg, mem, dl, ints>>

\* Iterator.Next()
DoNext ==
    /\ pc = "iter"
    /\ calls < MaxCalls
    /\ calls' = calls + 1
    /\ LET r == IterNext(iter)
       IN  /\ iter' = r.t
           /\ ret' = [op |-> "Next", arg |-> 0, a |-> r.value, b |-> 0]
    /\ sought' = IF sought.pos >= 0 THEN [sought EXCEPT !.nexts = @ + 1] ELSE sought
    /\ walk' = BrokenWalk
    /\ at' = Only({ AtNext(at, runs) : runs \in {Runs(Expand(list))} })
    /\ UNCHANGED <<pc, origin, offered, rejected, builder, list, extra, oks, codec, stream, alg, mem, dl, ints>>

\* Iterator.NextSkipTake()
DoNextSkipTake ==
    /\ pc = "iter"
    /\ calls < MaxCalls
    /\ calls' = calls + 1
    /\ LET r == IterNextSkipTake(iter)
       IN  /\ iter' = r.t
           /\ ret' = [op |-> "NextSkipTake", arg |-> 0, a |-> r.skip, b |-> r.take]
           /\ walk' = Walked(walk, iter, r)
    /\ sought' = NoSeek
    /\ at' = Only({ AtNextRun(at, runs) : runs \in {Runs(Expand(list))} })
    /\ UNCHANGED <<pc, origin, offered, rejected, builder, list, extra, oks, codec, stream, alg, mem, dl, ints>>

\* Iterator.NextInterval()
DoNextInterval ==
    /\ pc = "iter"
    /\ calls < MaxCalls
    /\ calls' = calls + 1
    /\ LET r == IterNextInterval(iter)
       IN  /\ iter' = r.t
           /\ ret' = [op |-> "NextInterval", arg |-> 0, a |-> r.first, b |-> r.last]
           /\ walk' = Walked(walk, iter, r)
    /\ sought' = NoSeek
    /\ at' = Only({ AtNextRun(at, runs) : runs \in {Runs(Expand(list))} })
    /\ UNCHANGED <<pc, origin, offered, rejected, builder, list, extra, oks, codec, stream, alg, mem, dl, ints>>

\* Iterator.Interval()
DoInterval ==
    /\ pc = "iter"
    /\ calls < MaxCalls
    /\ calls' = calls + 1
    /\ extra' = TRUE
    /\ LET r == IterInterval(iter)
       IN  /\ iter' = r.t
           /\ ret' = [op |-> "Interval", arg |-> 0, a |-> r.first, b |-> r.last]
    /\ sought' = NoSeek
    /\ walk' = BrokenWalk
    /\ at' = LostAt
    /\ UNCHANGED <<pc, origin, offered, rejected, builder, list, oks, codec, stream, alg, mem, dl, ints>>

\* Iterator.Seek(pos)
DoSeek(pos) ==
    /\ pc = "iter"
    /\ calls < MaxCalls
    /\ calls' = calls + 1
    /\ LET r == IterSeek(iter, pos)
       IN  /\ iter' = r.t
           /\ ret' = [op |-> "Seek", arg |-> pos, a |-> r.skip, b |-> r.take]
           /\ at' = Only({ AtSeek(at, runs, pos, ~(r.skip = 0 /\ r.take = 0))
                          : runs \in {Runs(Expand(list))} })
           /\ sought' = IF r.skip = 0 /\ r.take = 0 THEN NoSeek ELSE [pos |-> pos, nexts |-> 0]
    /\ walk' = BrokenWalk
    /\ UNCHANGED <<pc, origin, offered, rejected, builder, list, extra, oks, codec, stream, alg, mem, dl, ints>>

\* Iterator.Reset()
DoReset ==
    /\ pc = "iter"
    /\ calls < MaxCalls
    /\ calls' = calls + 1
    /\ extra' = TRUE
    /\ iter' = IterReset(iter)
    /\ ret' = [op |-> "Reset", arg |-> 0, a |-> 0, b |-> 0]
    /\ sought' = NoSeek
    /\ walk' = BrokenWalk
    /\ at' = LostAt
    /\ UNCHANGED <<pc, origin, offered, rejected, builder, list, oks, codec, stream, alg, mem, dl, ints>>

Next ==
    \/ \E v \in Values : BNext(v)
    \/ DoFinish
    \/ \E v \in SeqsUpTo(RawValues, 2 * MaxPairs) : DoFromRaw(v)
    \/ DoIterate
    \/ DoNext
    \/ DoNextSkipTake
    \/ DoNextInterval
    \/ DoInterval
    \/ \E pos \in 0 .. MaxPos : DoSeek(pos)
    \/ DoReset

Spec == Init /\ [][Next]_vars

(***************************************************************************)
(* The varint codec alone: the specification SpecCodec.                    *)
(* codec.entries are the <<u, e>> appended, codec.ends the buffer length   *)
(* after each append, codec.got the <<u, e, i>> read back.                 *)
(***************************************************************************)

listVars ==
    <<pc, origin, offered, rejected, builder, list, iter, ret, calls, extra, sought, oks, walk, at>>

\* buf = appendVarint2(buf, u, e)
CodecAppend(u, e) ==
    /\ Len(codec.entries) < MaxEntries
    /\ codec.got = <<>>
    /\ LET buf == appendVarint2(codec.buf, u, e)
       IN  codec' = [codec EXCEPT !.buf = buf,
                                  !.entries = Append(@, <<u, e>>),
                                  !.ends = Append(@, Len(buf))]
    /\ UNCHANGED <<listVars, stream, alg, mem, dl, ints>>

\* u, e = readVarint2(buf, &i)
CodecRead ==
    /\ Len(codec.got) < Len(codec.entries)
    /\ LET r == readVarint2(codec.buf, codec.i)
       IN  codec' = [codec EXCEPT !.i = r.i, !.got = Append(@, <<r.u, r.e, r.i>>)]
    /\ UNCHANGED <<listVars, stream, alg, mem, dl, ints>>

NextCodec ==
    \/ \E u \in CodecValues, e \in {skipFlag, takeFlag} : CodecAppend(u, e)
    \/ CodecRead

SpecCodec == Init /\ [][NextCodec]_vars

(***************************************************************************)
(* One Encoder and one Decoder on a pair stream: the specification         *)
(* SpecStream (testEncodeDecode).                                          *)
(***************************************************************************)

\* enc.Add(skip, take)
StreamAdd(skip, take) ==
    /\ ~stream.reading
    /\ Len(stream.pairs) < MaxPairs
    /\ stream' = [stream EXCEPT !.pairs = Append(@, <<skip, take>>),
                                !.enc = EncoderAdd(@, skip, take)]
    /\ UNCHANGED <<listVars, codec, alg, mem, dl, ints>>

\* dec := l.Decode()
StreamDecode ==
    /\ ~stream.reading
    /\ stream' = [stream EXCEPT !.reading = TRUE,
                                !.dec = Decode(stream.enc.Elements)]
    /\ UNCHANGED <<listVars, codec, alg, mem, dl, ints>>

\* skip, take := dec.Next(), once per pair added
StreamNext ==
    /\ stream.reading
    /\ Len(stream.decoded) < Len(stream.pairs)
    /\ LET r == DecoderNext(stream.dec)
       IN  stream' = [stream EXCEPT !.dec = r.d,
                                    !.decoded = Append(@, <<r.skip, r.take>>)]
    /\ UNCHANGED <<listVars, codec, alg, mem, dl, ints>>

NextStream ==
    \/ \E skip \in PairValues, take \in PairValues : StreamAdd(skip, take)
    \/ StreamDecode
    \/ StreamNext

SpecStream == Init /\ [][NextStream]_vars

(***************************************************************************)
(* Set algebra on Lists: the specification SpecAlgebra.                    *)
(* alg.lists are the argument Lists, alg.max the bound, alg.out the List   *)
(* returned.                                                               *)
(***************************************************************************)

\* Most Lists handed to one Union or Intersection.
MaxLists == 3

\* The argument Lists: every subset of SmallValues, Lists with values that
\* are far apart, and Lists that reach the two largest words.
SmallValues == {0, 1, 2, 3}

AlgLists ==
    {Create(SortedSeq(S)) : S \in SUBSET SmallValues}
        \cup {Create(v) : v \in {<<106>>, <<0, 8193>>, <<1, 8193>>, <<8300>>, <<106, 200, 8300>>,
                                 <<106, 300, 8300>>, <<MaxUint64 - 1>>,
                                 <<MaxUint64>>, <<MaxUint64 - 1, MaxUint64>>,
                                 <<0, MaxUint64>>}}

\* out = Union(lists...)
AlgUnion(lists) ==
    /\ alg.op = "none"
    /\ alg' = [op |-> "Union", lists |-> lists, max |-> 0, out |-> Union(lists)]
    /\ UNCHANGED <<listVars, codec, stream, mem, dl, ints>>

\* out = Intersection(lists...)
AlgIntersection(lists) ==
    /\ alg.op = "none"
    /\ alg' = [op |-> "Intersection", lists |-> lists, max |-> 0,
               out |-> Intersection(lists)]
    /\ UNCHANGED <<listVars, codec, stream, mem, dl, ints>>

\* out = ComplementMax(l, max)
AlgComplementMax(l, max) ==
    /\ alg.op = "none"
    /\ alg' = [op |-> "ComplementMax", lists |-> <<l>>, max |-> max,
               out |-> ComplementMax(l, max)]
    /\ UNCHANGED <<listVars, codec, stream, mem, dl, ints>>

\* out = ComplementMax(ComplementMax(l, max), max), as testComplement does
AlgComplementTwice(l, max) ==
    /\ alg.op = "none"
    /\ alg' = [op |-> "ComplementTwice", lists |-> <<l>>, max |-> max,
               out |-> Only({ ComplementMax(c, max) : c \in {ComplementMax(l, max)} })]
    /\ UNCHANGED <<listVars, codec, stream, mem, dl, ints>>

\* out = Union(l, ComplementMax(l, max))
AlgUnionComplement(l, max) ==
    /\ alg.op = "none"
    /\ alg' = [op |-> "UnionComplement", lists |-> <<l>>, max |-> max,
               out |-> Only({ Union(<<l, c>>) : c \in {ComplementMax(l, max)} })]
    /\ UNCHANGED <<listVars, codec, stream, mem, dl, ints>>

\* out = Intersection(l, ComplementMax(l, max))
AlgIntersectionComplement(l, max) ==
    /\ alg.op = "none"
    /\ alg' = [op |-> "IntersectionComplement", lists |-> <<l>>, max |-> max,
               out |-> Only({ Intersection(<<l, c>>) : c \in {ComplementMax(l, max)} })]
    /\ UNCHANGED <<listVars, codec, stream, mem, dl, ints>>

\* Bounds of ComplementMax at and next to the largest word, and one in between.
WideBounds == {8300, MaxUint64 - 2, MaxUint64 - 1, MaxUint64}

\* out = ComplementMax(l, max) with a bound of WideBounds; Complement(l) is
\* the case max = MaxUint64.
AlgComplementWide(l, max) ==
    /\ alg.op = "none"
    /\ alg' = [op |-> "ComplementWide", lists |-> <<l>>, max |-> max,
               out |-> ComplementMax(l, max)]
    /\ UNCHANGED <<listVars, codec, stream, mem, dl, ints>>

\* out = Union(lists...) as the scanning union computes it
AlgScanUnion(lists) ==
    /\ alg.op = "none"
    /\ alg' = [op |-> "ScanUnion", lists |-> lists, max |-> 0, out |-> ScanUnion(lists)]
    /\ UNCHANGED <<listVars, codec, stream, mem, dl, ints>>

NextAlgebra ==
    \/ \E lists \in SeqsUpTo(AlgLists, MaxLists) : AlgUnion(lists)
    \/ \E lists \in SeqsUpTo(AlgLists, MaxLists) : AlgIntersection(lists)
    \/ \E l \in AlgLists, max \in 0 .. MaxBound : AlgComplementMax(l, max)
    \/ \E l \in AlgLists, max \in 0 .. MaxBound : AlgComplementTwice(l, max)
    \/ \E l \in AlgLists, max \in 0 .. MaxBound : AlgUnionComplement(l, max)
    \/ \E l \in AlgLists, max \in 0 .. MaxBound : AlgIntersectionComplement(l, max)
    \/ \E l \in AlgLists, max \in WideBounds : AlgComplementWide(l, max)
    \/ \E lists \in SeqsUpTo(AlgLists, MaxLists) : AlgScanUnion(lists)

SpecAlgebra == Init /\ [][NextAlgebra]_vars

(***************************************************************************)
(* Equal and the laws of Union and Intersection: the specification         *)
(* SpecLaws.  The argument Lists are made by Create and by FromRaw, so     *)
(* that one value set comes with several raw pair streams.                 *)
(***************************************************************************)

MaxRaw == 4

\* Raw pair streams whose skips add up to a gap the Lists of Create reach
\* only with values far apart.
WideRaw == {<<4096, 0, 4097, 1>>, <<4096, 1, 4096, 1>>}

LawLists ==
    AlgLists \cup {FromRaw(v) : v \in SeqsUpTo(RawValues, MaxRaw) \cup WideRaw}

\* The Lists taken three at a time.
OrderLists ==
    {Create(SortedSeq(S)) : S \in SUBSET {0, 1, 2}}
        \cup {Create(v) : v \in {<<106>>, <<200>>, <<8300>>, <<MaxUint64>>}}
        \cup {FromRaw(v) : v \in {<<0, 1, 0, 1>>, <<1, 1, 0, 1>>}}

\* out = Equal(a, b)
LawEqual(a, b) ==
    /\ alg.op = "none"
    /\ alg' = [op |-> "Equal", lists |-> <<a, b>>, max |-> 0, out |-> <<Equal(a, b)>>]
    /\ UNCHANGED <<listVars, codec, stream, mem, dl, ints>>

\* out = <<Union(a, a), Union(a, List{})>>
LawUnionIdentity(a) ==
    /\ alg.op = "none"
    /\ alg' = [op |-> "UnionIdentity", lists |-> <<a>>, max |-> 0,
               out |-> <<Union(<<a, a>>), Union(<<a, <<>>>>)>>]
    /\ UNCHANGED <<listVars, codec, stream, mem, dl, ints>>

\* out = <<Union(a, b), Union(b, a), Union(Union(a, b), c),
\*         Union(a, Union(b, c)), Union(a, b, c)>>
LawUnionOrder(a, b, c) ==
    /\ alg.op = "none"
    /\ alg' = [op |-> "UnionOrder", lists |-> <<a, b, c>>, max |-> 0,
               out |-> Only({ <<ab, Union(<<b, a>>), Union(<<ab, c>>),
                                Only({ Union(<<a, bc>>) : bc \in {Union(<<b, c>>)} }),
                                Union(<<a, b, c>>)>>
                            : ab \in {Union(<<a, b>>)} })]
    /\ UNCHANGED <<listVars, codec, stream, mem, dl, ints>>

\* out = <<Intersection(a, b), Intersection(b, a),
\*         Intersection(Intersection(a, b), c),
\*         Intersection(a, Intersection(b, c)), Intersection(a, b, c)>>
LawIntersectionOrder(a, b, c) ==
    /\ alg.op = "none"
    /\ alg' = [op |-> "IntersectionOrder", lists |-> <<a, b, c>>, max |-> 0,
               out |-> Only({ <<ab, Intersection(<<b, a>>), Intersection(<<ab, c>>),
                                Only({ Intersection(<<a, bc>>)
                                     : bc \in {Intersection(<<b, c>>)} }),
                                Intersection(<<a, b, c>>)>>
                            : ab \in {Intersection(<<a, b>>)} })]
    /\ UNCHANGED <<listVars, codec, stream, mem, dl, ints>>

NextLaws ==
    \/ \E a \in LawLists, b \in LawLists : LawEqual(a, b)
    \/ \E a \in LawLists : LawUnionIdentity(a)
    \/ \E a \in OrderLists, b \in OrderLists, c \in OrderLists : LawUnionOrder(a, b, c)
    \/ \E a \in OrderLists, b \in OrderLists, c \in OrderLists :
          LawIntersectionOrder(a, b, c)
    \/ \E lists \in SeqsUpTo(LawLists, 1) : AlgUnion(lists)
    \/ \E lists \in SeqsUpTo(LawLists, 1) : AlgIntersection(lists)

SpecLaws == Init /\ [][NextLaws]_vars

(***************************************************************************)
(* Lists as slices of backing arrays: the specification SpecFrame.         *)
(* mem.arrays[a] is the backing array at address a (its length is its      *)
(* capacity); a List is a slice [arr, len] of one array, or the nil slice. *)
(* mem.lists are the Lists made so far, mem.before the arrays as they were *)
(* when the set operation was called, mem.result the List it returned.     *)
(***************************************************************************)

\* The Lists made before the set operation is called.
FrameLists == {Create(SortedSeq(S)) : S \in SUBSET {0, 1, 2}}

\* The bytes of the List h.
Bytes(arrays, h) == IF h.arr = 0 THEN <<>> ELSE SubSeq(arrays[h.arr], 1, h.len)

\* append(target, bytes...) for the slice h: in place when the capacity
\* allows it, else into a new array.
MemAppend(arrays, h, bytes) ==
    IF bytes = <<>>
    THEN [arrays |-> arrays, h |-> h]
    ELSE IF h.arr # 0 /\ h.len + Len(bytes) <= Len(arrays[h.arr])
         THEN [arrays |-> [arrays EXCEPT ![h.arr] =
                              SubSeq(@, 1, h.len) \o bytes
                                  \o SubSeq(@, h.len + Len(bytes) + 1, Len(@))],
               h |-> [h EXCEPT !.len = @ + Len(bytes)]]
         ELSE [arrays |-> Append(arrays, Bytes(arrays, h) \o bytes),
               h |-> [arr |-> Len(arrays) + 1, len |-> h.len + Len(bytes)]]

\* Build(l) with l one of the argument Lists: l.Clear() keeps the array.
BuildIntoFirst(lists) ==
    IF Len(lists) = 0 THEN NilList ELSE [lists[1] EXCEPT !.len = 0]

\* `b := Build(&List{})`: the List a set operation on `lists` builds into.
BuildTarget(lists) == NilList

\* The argument Lists of the set operation, as byte sequences.
MemLists == [i \in 1 .. Len(mem.lists) |-> Bytes(mem.arrays, mem.lists[i])]

\* mem after the set operation op wrote the bytes `out` through its Builder.
Framed(op, max, out) ==
    Only({ [mem EXCEPT !.op = op, !.max = max, !.before = mem.arrays,
                       !.arrays = r.arrays, !.result = r.h]
         : r \in {MemAppend(mem.arrays, BuildTarget(mem.lists), out)} })

\* A List is made (as Create does, into a List of its own).
FrameCreate(l) ==
    /\ mem.op = "none"
    /\ Len(mem.lists) < MaxLists
    /\ mem' = Only({ [mem EXCEPT !.arrays = r.arrays, !.lists = Append(@, r.h)]
                   : r \in {MemAppend(mem.arrays, NilList, l)} })
    /\ UNCHANGED <<listVars, codec, stream, alg, dl, ints>>

\* Union(lists...)
FrameUnion ==
    /\ mem.op = "none"
    /\ mem' = Only({ Framed("Union", 0, out) : out \in {Union(MemLists)} })
    /\ UNCHANGED <<listVars, codec, stream, alg, dl, ints>>

\* Intersection(lists...)
FrameIntersection ==
    /\ mem.op = "none"
    /\ mem' = Only({ Framed("Intersection", 0, out) : out \in {Intersection(MemLists)} })
    /\ UNCHANGED <<listVars, codec, stream, alg, dl, ints>>

\* ComplementMax(list, max) of the first List
FrameComplementMax(max) ==
    /\ mem.op = "none"
    /\ Len(mem.lists) >= 1
    /\ mem' = Only({ Framed("ComplementMax", max, out)
                   : out \in {ComplementMax(MemLists[1], max)} })
    /\ UNCHANGED <<listVars, codec, stream, alg, dl, ints>>

NextFrame ==
    \/ \E l \in FrameLists : FrameCreate(l)
    \/ FrameUnion
    \/ FrameIntersection
    \/ \E max \in 0 .. MaxBound : FrameComplementMax(max)

SpecFrame == Init /\ [][NextFrame]_vars

(***************************************************************************)
(* Decoding any byte sequence to its end: the specification SpecDecode.    *)
(* dl.d is the decoder (lastTake is not used by the plain format), dl.pc   *)
(* is "loop" at the test of `for !d.EOS()`, "eat" inside the loop of the   *)
(* plain format's Next, "done" after the loop.                             *)
(***************************************************************************)

MaxBuf == 3

\* Bytes that end a varint, continue one, and overflow one.
DecodeBytes == {0, 1, 2, 128, 129, 255}

\* A decoder is made for the byte sequence b.
DecodeStart(fmt, b) ==
    /\ dl.pc = "idle"
    /\ dl' = [fmt |-> fmt, pc |-> "loop", d |-> Decode(b), j |-> 0, take |-> 0]
    /\ UNCHANGED <<listVars, codec, stream, alg, mem, ints>>

\* `for !d.EOS()` finds the decoder at its end.
DecodeEnd ==
    /\ dl.pc = "loop"
    /\ DecoderEOS(dl.d)
    /\ dl' = [dl EXCEPT !.pc = "done"]
    /\ UNCHANGED <<listVars, codec, stream, alg, mem, ints>>

\* Decoder.Next() of the split format, called by the loop.
SplitNext ==
    /\ dl.pc = "loop"
    /\ dl.fmt = "split"
    /\ ~DecoderEOS(dl.d)
    /\ dl' = [dl EXCEPT !.d = DecoderNext(dl.d).d]
    /\ UNCHANGED <<listVars, codec, stream, alg, mem, ints>>

\* SkipTakeDecoder.Next() of the plain format up to its loop: skip and take
\* are read, j := x.i.
PlainNext ==
    /\ dl.pc = "loop"
    /\ dl.fmt = "plain"
    /\ ~DecoderEOS(dl.d)
    /\ dl' = Only({ Only({ [dl EXCEPT !.pc = "eat", !.d.i = t.i, !.j = t.i, !.take = t.v]
                         : t \in {readVarint(dl.d.Elements, k.i)} })
                  : k \in {readVarint(dl.d.Elements, dl.d.i)} })
    /\ UNCHANGED <<listVars, codec, stream, alg, mem, ints>>

\* One pass of `for j < len(x.Elements)` in SkipTakeDecoder.Next: a skip that
\* is not zero ends the loop, else the take is added and x.i = j.
PlainEat ==
    /\ dl.pc = "eat"
    /\ dl.j < Len(dl.d.Elements)
    /\ dl' = Only({ IF k.v # 0
                    THEN [dl EXCEPT !.pc = "loop"]
                    ELSE Only({ [dl EXCEPT !.take = Add(dl.take, t.v), !.j = t.i,
                                           !.d.i = t.i]
                              : t \in {readVarint(dl.d.Elements, k.i)} })
                  : k \in {readVarint(dl.d.Elements, dl.j)} })
    /\ UNCHANGED <<listVars, codec, stream, alg, mem, ints>>

\* The loop of SkipTakeDecoder.Next ends with j at the end of the bytes.
PlainReturn ==
    /\ dl.pc = "eat"
    /\ dl.j >= Len(dl.d.Elements)
    /\ dl' = [dl EXCEPT !.pc = "loop"]
    /\ UNCHANGED <<listVars, codec, stream, alg, mem, ints>>

NextDecode ==
    \/ \E fmt \in {"plain", "split"}, b \in SeqsUpTo(DecodeBytes, MaxBuf) :
          DecodeStart(fmt, b)
    \/ DecodeEnd
    \/ SplitNext
    \/ PlainNext
    \/ PlainEat
    \/ PlainReturn

\* The loop is one thread of control: it takes its next step when it has one.
SpecDecode == Init /\ [][NextDecode]_vars /\ WF_vars(NextDecode)

(***************************************************************************)
(* Pairs through the packed format: the specification SpecInt.             *)
(***************************************************************************)

\* Most pairs written to one packed List.
MaxIntPairs == 2

\* Skips and takes below, at and above the largest half word; IntSkips holds
\* skips whose low half is zero.
IntSkips == {0, 1, MaxUint32, HalfModulus, HalfModulus + 1, 2 * HalfModulus, MaxUint64}

IntTakes == {1, MaxUint32, HalfModulus, 2 * MaxUint32, 2 * MaxUint32 + 1}

\* SkipTakeIntEncoder.Add(skip, take) with a pair of a canonical stream:
\* take >= 1, and skip >= 1 after the first pair.
IntAdd(skip, take) ==
    /\ ints.pc = "add"
    /\ Len(ints.pairs) < MaxIntPairs
    /\ ints.pairs # <<>> => skip >= 1
    /\ ints' = [ints EXCEPT !.pairs = Append(@, <<skip, take>>),
                            !.Elements = IntEncoderAdd(@, skip, take)]
    /\ UNCHANGED <<listVars, codec, stream, alg, mem, dl>>

\* l.Decode() on the List written
IntRead ==
    /\ ints.pc = "add"
    /\ ints' = [ints EXCEPT !.pc = "read", !.x = IntDecode(ints.Elements)]
    /\ UNCHANGED <<listVars, codec, stream, alg, mem, dl>>

\* One pass of `for !x.EOS() { skip, take := x.Next() }`
IntNext ==
    /\ ints.pc = "read"
    /\ ~IntDecoderEOS(ints.x)
    /\ LET r == IntDecoderNext(ints.x)
       IN  ints' = [ints EXCEPT !.x = r.x,
                                !.decoded = Append(@, <<r.skip, r.take>>)]
    /\ UNCHANGED <<listVars, codec, stream, alg, mem, dl>>

\* The loop ends when EOS() is true.
IntEnd ==
    /\ ints.pc = "read"
    /\ IntDecoderEOS(ints.x)
    /\ ints' = [ints EXCEPT !.pc = "done"]
    /\ UNCHANGED <<listVars, codec, stream, alg, mem, dl>>

NextInt ==
    \/ \E skip \in IntSkips, take \in IntTakes : IntAdd(skip, take)
    \/ IntRead
    \/ IntNext
    \/ IntEnd

SpecInt == Init /\ [][NextInt]_vars

(***************************************************************************)
(* Claims checked under SpecCodec and SpecStream.                          *)
(***************************************************************************)

\* C3: the tagged varint codec round-trips.  Every entry read back from the
\* buffer is the value and flag that were appended, the cursor stands right
\* after the bytes of that entry (also when further entries follow), and no
\* entry takes more than 10 bytes.
C3_VarintRoundTrip ==
    /\ \A k \in 1 .. Len(codec.got) :
          codec.got[k] = <<codec.entries[k][1], codec.entries[k][2], codec.ends[k]>>
    /\ \A k \in 1 .. Len(codec.ends) :
          codec.ends[k] - (IF k = 1 THEN 0 ELSE codec.ends[k - 1]) \in 1 .. 10

\* C2: the pairs added through one Encoder on an empty List come back from
\* Decoder.Next on a fresh Decoder, pair for pair and in order, and the Decoder
\* is at EOS right after the last of them.
C2_EncodeDecodeRoundTrip ==
    /\ \A k \in 1 .. Len(stream.decoded) : stream.decoded[k] = stream.pairs[k]
    /\ (stream.reading /\ Len(stream.decoded) = Len(stream.pairs))
          => DecoderEOS(stream.dec)

(***************************************************************************)
(* Claims checked under Spec.                                              *)
(***************************************************************************)

\* C1: for every strictly increasing sequence V of values, Create(V) builds a
\* List (no Builder.Next is refused) whose Expand() is exactly V, element for
\* element and in the same order.
C1_CreateExpandsToInput ==
    (pc # "build" /\ origin = "Create" /\ StrictlyIncreasing(offered))
        => (~rejected /\ Expand(list) = offered)

\* C10: from every iterator state reached by Next, NextSkipTake, NextInterval
\* and Seek calls, Seek(pos) with pos < Len(L) returns (v, k) with v the pos-th
\* value (0-based) of Expand(L) and k the number of values from v to the end
\* of the maximal run that holds v.
C10_SeekReturnsValueAndRunRest ==
    (pc = "iter" /\ ~extra /\ ret.op = "Seek" /\ ret.arg < Len(Expand(list)))
        => /\ ret.a = Expand(list)[ret.arg + 1]
           /\ ret.b = RunRest(Expand(list), ret.arg)

\* C11: after a Seek(pos) that found a value, the Next calls that follow
\* return the values at ordinals pos, pos + 1, ... of the expanded sequence,
\* across run boundaries, and the Next after the last value reaches EOS.
C11_NextAfterSeekWalksSequence ==
    (pc = "iter" /\ ret.op = "Next" /\ sought.pos >= 0
                 /\ sought.pos < Len(Expand(list)))
        => /\ sought.pos + sought.nexts <= Len(Expand(list))
              => /\ ret.a = Expand(list)[sought.pos + sought.nexts]
                 /\ ~IterEOS(iter)
           /\ sought.pos + sought.nexts = Len(Expand(list)) + 1
              => IterEOS(iter)

\* C12: from every iterator state, Seek(pos) with pos >= Len(L) returns (0, 0)
\* and leaves the iterator at EOS.
C12_SeekPastEndIsEOS ==
    (pc = "iter" /\ ret.op = "Seek" /\ ret.arg >= Len(Expand(list)))
        => (ret.a = 0 /\ ret.b = 0 /\ IterEOS(iter))

\* What the Iterator surfaces at step walk.k of a walk over a List whose
\* expansion has the maximal runs `runs`.
SurfacesRun(runs) ==
    IF IterEOS(iter)
    THEN walk.k = Len(runs)
    ELSE /\ walk.k \in 1 .. Len(runs)
         /\ <<iter.n, Sub(Add(iter.n, iter.take), 1)>> = runs[walk.k]
         /\ ret.op = "NextSkipTake"
               => /\ ret.b >= 1
                  /\ walk.k > 1 => ret.a >= 1
                  /\ <<ret.a, ret.b>> = CanonicalPair(runs, walk.k)
         /\ ret.op = "NextInterval"
               => /\ ret.a <= ret.b
                  /\ walk.k > 1 => ret.a >= walk.prev + 2
                  /\ <<ret.a, ret.b>> = runs[walk.k]

\* C13: walking a List (made by FromRaw, or by a Builder from strictly
\* increasing values) with NextSkipTake / NextInterval alone, whatever zero
\* skips and zero takes its raw pairs hold, every pair surfaced before EOS has
\* take >= 1, every pair after the first has skip >= 1, every interval has
\* first <= last and starts at least two after the previous last, and the
\* intervals surfaced are exactly the maximal runs of Expand(L), in order.
C13_IteratorSurfacesCanonicalPairs ==
    (pc = "iter" /\ walk.k >= 0 /\ ret.op \in {"NextSkipTake", "NextInterval"}
                 /\ (origin = "FromRaw" \/ StrictlyIncreasing(offered)))
        => SurfacesRun(Runs(Expand(list)))

\* A List made from raw pairs with a zero skip after the first pair or a zero
\* take was walked to its second run.
C13_Witness ==
    /\ pc = "iter"
    /\ origin = "FromRaw"
    /\ \E i \in 1 .. Len(offered) \div 2 :
           (i > 1 /\ offered[2 * i - 1] = 0) \/ offered[2 * i] = 0
    /\ walk.k = 2
    /\ ret.op \in {"NextSkipTake", "NextInterval"}
    /\ ~IterEOS(iter)

\* C14: NextSkipTake returns (0, 0) exactly when the iterator is at EOS after
\* the call, also when the interval reached starts or ends at MaxUint64; on an
\* exhausted stream it returns (0, 0) and EOS() is true; an iterator no call
\* was made on is not at EOS, even over an empty List.
C14_NextSkipTakeZeroIffEOS ==
    /\ [](pc = "iter" /\ calls = 0 => ~IterEOS(iter))
    /\ [][(ret'.op = "NextSkipTake" /\ calls' # calls)
            => /\ (ret'.a = 0 /\ ret'.b = 0) <=> IterEOS(iter')
               /\ DecoderEOS(iter.Decoder)
                     => (ret'.a = 0 /\ ret'.b = 0 /\ IterEOS(iter'))]_vars

\* NextSkipTake surfaced a run that ends at MaxUint64.
C14_Witness ==
    /\ pc = "iter"
    /\ ret.op = "NextSkipTake"
    /\ ret.b >= 1
    /\ Sub(Add(iter.n, iter.take), 1) = MaxUint64
    /\ ~IterEOS(iter)

\* C15: Builder.Next(v) returns true exactly when v is greater than every
\* value the builder accepted so far, for all values up to MaxUint64, and
\* Create returns nil for every input that is not strictly increasing.
C15_NextTrueIffGreater ==
    origin = "Create"
        => /\ \A i \in 1 .. Len(oks) :
                 oks[i] <=> (\A j \in 1 .. i - 1 : oks[j] => offered[j] < offered[i])
           /\ Create(offered) = Nil <=> ~StrictlyIncreasing(offered)

\* C21: the values Next returns up to EOS, and so Expand(L), are strictly
\* increasing for every List made by Create, by a Builder, by FromRaw or by a
\* set operation.
C21_ExpandStrictlyIncreasing ==
    /\ pc # "build" => StrictlyIncreasing(Expand(list))
    /\ alg.op \in {"Union", "Intersection", "ComplementMax"}
          => StrictlyIncreasing(Expand(alg.out))

\* What the last call returned and where it left the iterator, when the calls
\* so far should have brought it to the place `at` in the runs `runs`.
ResultAt(runs) ==
    /\ ret.op = "Next"
          => /\ ret.a = runs[at.run][1] + at.j - 1
             /\ ~IterEOS(iter)
    /\ ret.op = "NextSkipTake"
          => /\ <<ret.a, ret.b>> = CanonicalPair(runs, at.run)
             /\ iter.n = runs[at.run][1]
             /\ iter.take = ret.b
    /\ ret.op = "NextInterval"
          => /\ <<ret.a, ret.b>> = runs[at.run]
             /\ iter.n = runs[at.run][1]

\* C22: after a Seek(pos) that found a value, the NextSkipTake that follows
\* returns the gap after the run of that value and the full length of the
\* following run, and the Next after it returns the first value of that run.
C22_NextSkipTakeAfterSeek ==
    (pc = "iter" /\ at.seeks >= 1 /\ at.hop \in {2, 3}
                 /\ (origin = "FromRaw" \/ StrictlyIncreasing(offered)))
        => ResultAt(Runs(Expand(list)))

\* C23: with Next and NextSkipTake (and NextInterval) called in any order on a
\* new iterator, NextSkipTake after j Next calls inside a run returns the
\* canonical pair of the following run and leaves the iterator at its first
\* value, whatever j is, and Next goes on with the following run when a run
\* is used up.
C23_NextAndNextSkipTakeInterleave ==
    (pc = "iter" /\ at.seeks = 0 /\ at.run >= 1
                 /\ (origin = "FromRaw" \/ StrictlyIncreasing(offered)))
        => ResultAt(Runs(Expand(list)))

\* NextSkipTake was called after one Next inside a run of two values or more,
\* and reached the following run.
C23_Witness ==
    /\ pc = "iter"
    /\ at.seeks = 0
    /\ at.nexts = 1
    /\ at.run >= 2
    /\ ret.op = "NextSkipTake"
    /\ RunLen(Runs(Expand(list)), at.run - 1) >= 2
    /\ (origin = "FromRaw" \/ StrictlyIncreasing(offered))

\* The results of NextSkipTake on iterator t up to EOS, each with the first
\* value of the interval reached (what NextInterval returns first); `left`
\* caps the length.
RECURSIVE PairsLoop(_, _, _)
PairsLoop(t, output, left) ==
    Only({ IF IterEOS(r.t) \/ left = 0
           THEN output
           ELSE Only({ PairsLoop(r.t, o, left - 1)
                     : o \in {Append(output, <<r.skip, r.take, r.t.n>>)} })
         : r \in {IterNextSkipTake(t)} })

\* C25: Reset, called in any state the iterator can reach, leaves an iterator
\* that returns the same NextSkipTake, NextInterval and Next results as a new
\* Iterator over the same List.
C25_ResetIsLikeNew ==
    pc = "iter"
        => /\ PairsLoop(IterReset(iter), <<>>, MaxExpand)
                 = PairsLoop(Iterate(list), <<>>, MaxExpand)
           /\ ExpandLoop(IterReset(iter), <<>>, MaxExpand) = Expand(list)

\* C27: end-of-sequence is absorbing.  A call of Next, NextSkipTake,
\* NextInterval or Interval made while EOS() is true returns the
\* end-of-sequence result (MaxUint64; (0, 0); (MaxUint64, 0)) and leaves
\* EOS() true; only Reset and Seek are exempt.
C27_EOSIsAbsorbing ==
    [][ (pc = "iter" /\ IterEOS(iter)
            /\ ret'.op \in {"Next", "NextSkipTake", "NextInterval", "Interval"})
        => /\ IterEOS(iter')
           /\ ret'.op = "Next" => ret'.a = MaxUint64
           /\ ret'.op = "NextSkipTake" => ret'.a = 0 /\ ret'.b = 0
           /\ ret'.op \in {"NextInterval", "Interval"}
                 => ret'.a = MaxUint64 /\ ret'.b = 0 ]_vars

(***************************************************************************)
(* Claims checked under SpecAlgebra.                                       *)
(***************************************************************************)

\* The values of List l, as a set.
ValueSet(l) == Range(Expand(l))

\* C4: Union(L1..Lk).Expand() is the sorted union of the value sets of the
\* inputs, for any k >= 0.
C4_UnionExpandsToSetUnion ==
    alg.op = "Union"
        => Expand(alg.out) =
             SortedSeq(UNION {ValueSet(alg.lists[i]) : i \in 1 .. Len(alg.lists)})

\* C5: for k >= 1 inputs, Intersection(L1..Lk).Expand() is the increasing
\* sequence of the values that occur in every input.
C5_IntersectionExpandsToCommonValues ==
    (alg.op = "Intersection" /\ Len(alg.lists) >= 1)
        => Expand(alg.out) =
             SortedSeq({v \in ValueSet(alg.lists[1]) :
                          \A i \in 1 .. Len(alg.lists) : v \in ValueSet(alg.lists[i])})

\* C6: the value set of ComplementMax(L, max) is exactly the values of
\* 0 .. max that are not in L.
C6_ComplementMaxIsComplementInBound ==
    alg.op = "ComplementMax"
        => Expand(alg.out) =
             SortedSeq({v \in 0 .. alg.max : v \notin ValueSet(alg.lists[1])})

\* C7: for m at or above every value of A, ComplementMax(ComplementMax(A, m), m)
\* has the value set of A and is Equal to A.
C7_ComplementMaxTwiceIsIdentity ==
    (alg.op = "ComplementTwice" /\ \A v \in ValueSet(alg.lists[1]) : v <= alg.max)
        => /\ Expand(alg.out) = Expand(alg.lists[1])
           /\ Equal(alg.out, alg.lists[1])

\* C8: for m at or above every value of A, Union(A, ComplementMax(A, m)) is
\* Equal to the List of the one run 0 .. m.
C8_UnionWithComplementCoversRange ==
    (alg.op = "UnionComplement" /\ \A v \in ValueSet(alg.lists[1]) : v <= alg.max)
        => Equal(alg.out, makeRange(<< <<0, alg.max>> >>))

\* C9: for every A and every bound m, Intersection(A, ComplementMax(A, m)) is
\* the empty List.
C9_IntersectionWithComplementIsEmpty ==
    alg.op = "IntersectionComplement" => Expand(alg.out) = <<>>


\* The intervals of List l, as NextInterval returns them up to EOS.
Intervals(l) ==
    Only({ [i \in 1 .. Len(p) |-> <<p[i][3], p[i][3] + p[i][2] - 1>>]
         : p \in {PairsLoop(Iterate(l), <<>>, MaxExpand)} })

\* The runs of lo .. max that lie between the runs k, k+1, ... of `runs`.
RECURSIVE GapsLoop(_, _, _, _)
GapsLoop(runs, k, lo, max) ==
    IF lo > max THEN <<>>
    ELSE IF k > Len(runs) THEN << <<lo, max>> >>
    ELSE IF runs[k][1] > lo
         THEN << <<lo, Min(runs[k][1] - 1, max)>> >>
                  \o GapsLoop(runs, k + 1, runs[k][2] + 1, max)
         ELSE GapsLoop(runs, k + 1, runs[k][2] + 1, max)

\* C26: ComplementMax is right for every bound up to MaxUint64, with no
\* wraparound of a word: its intervals are the gaps that the runs of L leave
\* in 0 .. max, and for the empty List it is the one run 0 .. max.
C26_ComplementMaxUpToLargestWord ==
    alg.op = "ComplementWide"
        => /\ Intervals(alg.out)
                 = GapsLoop(Runs(Expand(alg.lists[1])), 1, 0, alg.max)
           /\ alg.lists[1] = <<>> => Intervals(alg.out) = << <<0, alg.max>> >>

\* C29: the scanning union and the heap union return Lists with the same
\* values from the same arguments, Lists that hold MaxUint64 and empty Lists
\* included.
C29_ScanUnionAgreesWithHeapUnion ==
    alg.op = "ScanUnion" => ValueSet(alg.out) = ValueSet(Union(alg.lists))

\* The pairs of List l as Decoder.Next returns them up to EOS.
RECURSIVE RawPairs(_, _)
RawPairs(d, output) ==
    IF DecoderEOS(d)
    THEN output
    ELSE Only({ RawPairs(r.d, Append(output, <<r.skip, r.take>>))
              : r \in {DecoderNext(d)} })

\* A canonical pair stream: every take at least 1, every skip after the first
\* pair at least 1.
RawCanonical(l) ==
    Only({ /\ \A k \in 1 .. Len(p) : p[k][2] >= 1
           /\ \A k \in 2 .. Len(p) : p[k][1] >= 1
         : p \in {RawPairs(Decode(l), <<>>)} })

\* C30: a List returned by Union, Intersection or ComplementMax is a
\* canonical pair stream, and it is the same bytes as any other such result
\* with the same values (here: the Union of any one argument List).
C30_ResultsAreCanonical ==
    alg.op \in {"Union", "Intersection", "ComplementMax", "ComplementWide"}
        => /\ RawCanonical(alg.out)
           /\ \A l \in AlgLists :
                  Only({ Intervals(r) = Intervals(alg.out) => r = alg.out
                       : r \in {Union(<<l>>)} })

(***************************************************************************)
(* Claims about Equal and the laws of Union and Intersection, checked      *)
(* under SpecLaws.                                                         *)
(***************************************************************************)

\* C16: Equal(A, B) is true exactly when A and B expand to the same values,
\* also when their raw pair streams differ.
C16_EqualIffSameValues ==
    alg.op = "Equal"
        => (alg.out[1] <=> Expand(alg.lists[1]) = Expand(alg.lists[2]))

\* C17: for every List A, made by Create or by FromRaw, Equal(Union(A, A), A)
\* and Equal(Union(A, empty), A) are true.
C17_UnionIdempotentWithIdentity ==
    alg.op = "UnionIdentity"
        => /\ Equal(alg.out[1], alg.lists[1])
           /\ Equal(alg.out[2], alg.lists[1])

\* The five results of an order / grouping action have the value sets the
\* laws ask for: the two orders agree, and the three groupings agree.
SameWhateverOrder(out) ==
    /\ ValueSet(out[1]) = ValueSet(out[2])
    /\ ValueSet(out[3]) = ValueSet(out[4])
    /\ ValueSet(out[4]) = ValueSet(out[5])

\* C18: the value set of Union and of Intersection does not depend on the
\* order or the grouping of the input Lists, also when the inputs' current
\* intervals tie on their first value.
C18_OrderAndGroupingDoNotMatter ==
    alg.op \in {"UnionOrder", "IntersectionOrder"} => SameWhateverOrder(alg.out)

\* C19: Union and Intersection of zero Lists are empty (Len 0); of exactly one
\* List L they have the value set of L; of one empty List they are empty.
C19_DegenerateInputs ==
    alg.op \in {"Union", "Intersection"}
        => /\ Len(alg.lists) = 0 => ListLen(alg.out) = 0
           /\ Len(alg.lists) = 1
                 => /\ ValueSet(alg.out) = ValueSet(alg.lists[1])
                    /\ ListLen(alg.lists[1]) = 0 => ListLen(alg.out) = 0


(***************************************************************************)
(* Claims about Lists in memory, checked under SpecFrame.                  *)
(***************************************************************************)

\* C20: after Union, Intersection or ComplementMax returned, every argument
\* List has the bytes and the length it had before the call, no array that
\* existed before the call was written, and the returned List is a slice of
\* no array of an argument List.
C20_SetOperationsLeaveInputsUnchanged ==
    mem.op # "none"
        => /\ \A i \in 1 .. Len(mem.lists) :
                 Bytes(mem.arrays, mem.lists[i]) = Bytes(mem.before, mem.lists[i])
           /\ \A a \in 1 .. Len(mem.before) : mem.arrays[a] = mem.before[a]
           /\ \A i \in 1 .. Len(mem.lists) :
                 mem.result.arr = 0 \/ mem.result.arr # mem.lists[i].arr

\* A set operation returned a List that is not its first argument and would
\* have fitted into the array of its first argument.
C20_Witness ==
    /\ mem.op \in {"Union", "Intersection", "ComplementMax"}
    /\ Len(mem.lists) >= 1
    /\ mem.result.len >= 1
    /\ mem.result.len <= mem.lists[1].len
    /\ Bytes(mem.arrays, mem.result) # Bytes(mem.arrays, mem.lists[1])


(***************************************************************************)
(* Claims about decoding, checked under SpecDecode.                        *)
(***************************************************************************)

\* C24: on every byte sequence, in the plain and in the split format, the
\* loop `for !d.EOS() { d.Next() }` comes to its end.
C24_DecodingTerminates == (dl.pc # "idle") ~> (dl.pc = "done")

(***************************************************************************)
(* Claims about the packed format, checked under SpecInt.                  *)
(***************************************************************************)

\* C28: the pairs decoded from a packed List are the pairs that were added to
\* it, whatever the size of their skips and takes: escaped skips are put
\* together again and the continuation pairs of a large take are fused.
C28_PackedRoundTrip ==
    ints.pc = "done" => ints.decoded = ints.pairs

====
